---- MODULE Spec2Model ----
(***************************************************************************)
(* The ingestion-to-retrieval pipeline of rag_app: file discovery, loader  *)
(* dispatch, chunking, content-hash deduplication against the persisted    *)
(* Chroma collection (VectorStore), count/clear and k-NN retrieval.        *)
(*                                                                         *)
(* Spec            the pipeline as the code runs it: one operation at a    *)
(*                 time against the persisted collection (single writer).  *)
(* SpecConcurrent  two add_documents calls running against the same        *)
(*                 persisted collection, split at their two store calls    *)
(*                 (the bulk read of hashes, the write).                   *)
(* SpecAnswer      ingestion runs and answer_question calls.               *)
(* SpecReaders     an ingestion run, then retrieve_documents calls running *)
(*                 at the same time, split at the query of the store.      *)
(* SpecFormat      format_sources applied to retrieved chunks.             *)
(* SpecContext     format_documents and format_sources applied to the     *)
(*                 same retrieved chunks, as answer_question does.         *)
(* SpecLoad        load_document applied to one file.                      *)
(* SpecDiscover    discover_files applied to one directory tree.           *)
(* SpecChunk       chunk_documents applied to loaded documents.            *)
(* SpecDiscoverLoad  the discovery and the loading loop of                 *)
(*                 ingest_documents over one directory tree.               *)
(***************************************************************************)
EXTENDS Integers, Sequences, FiniteSets, TLC

\* ----------------------------------------------------------------- bounds
\* Most records the collection is allowed to hold in the model.
MaxIndex == 3
\* Largest k a caller passes to retrieval.
MaxK == 3
\* Most paragraphs in a document handed to chunk_documents, and the longest
\* of them.
MaxParagraphs == 2
MaxParagraphLen == 2500
\* Longest chunk text handed to format_sources.
MaxContentLen == 204

\* config.py: the number of documents retrieval asks for by default.
DEFAULT_K == 4
\* config.py: the splitter's target size and the overlap of adjacent chunks.
CHUNK_SIZE == 1000
CHUNK_OVERLAP == 200
\* ingest.py chunk_documents: the length of the first separator, "\n\n".
PARAGRAPH_BREAK == 2
\* retrieval.py format_sources: the length a snippet is cut to.
SNIPPET_LEN == 200

\* ------------------------------------------------------------ value sets
\* Chunk-sized pieces of text, named by a number; a query is a piece of text too.
Contents == {1, 2}
Queries == {1, 2}
\* File names; paths sort as the names do.
FileNames == {1, 2}
\* The text of a readable file: its chunk-sized segments in order.
Texts == {<<1>>, <<2>>}
Procs == {1, 2}

\* config.py: the extensions discovery globs for.
SUPPORTED_EXTENSIONS == {".pdf", ".txt", ".md", ".html", ".htm", ".py", ".ipynb"}
\* ingest.py: extension -> loader.
LOADER_MAP ==
  [e \in {".pdf", ".txt", ".md", ".html", ".htm", ".py", ".ipynb"} |->
     CASE e = ".pdf" -> "load_pdf"
       [] e \in {".txt", ".md"} -> "load_text"
       [] e \in {".html", ".htm"} -> "load_html"
       [] e = ".py" -> "load_python"
       [] OTHER -> "load_notebook"]

\* The suffixes a path can have (Path.suffix; "" when there is none), each
\* with its characters.
CharsOf ==
  [e \in {"", ".pdf", ".txt", ".md", ".html", ".htm", ".py", ".ipynb", ".bin",
          ".PDF", ".Txt", ".MD", ".Html", ".HTM", ".Py", ".IPYNB", ".BIN"} |->
     CASE e = "" -> <<>>
       [] e = ".pdf" -> <<".", "p", "d", "f">>
       [] e = ".txt" -> <<".", "t", "x", "t">>
       [] e = ".md" -> <<".", "m", "d">>
       [] e = ".html" -> <<".", "h", "t", "m", "l">>
       [] e = ".htm" -> <<".", "h", "t", "m">>
       [] e = ".py" -> <<".", "p", "y">>
       [] e = ".ipynb" -> <<".", "i", "p", "y", "n", "b">>
       [] e = ".bin" -> <<".", "b", "i", "n">>
       [] e = ".PDF" -> <<".", "P", "D", "F">>
       [] e = ".Txt" -> <<".", "T", "x", "t">>
       [] e = ".MD" -> <<".", "M", "D">>
       [] e = ".Html" -> <<".", "H", "t", "m", "l">>
       [] e = ".HTM" -> <<".", "H", "T", "M">>
       [] e = ".Py" -> <<".", "P", "y">>
       [] e = ".IPYNB" -> <<".", "I", "P", "Y", "N", "B">>
       [] OTHER -> <<".", "B", "I", "N">>]
Suffixes == DOMAIN CharsOf
StringOf(chars) == CHOOSE e \in Suffixes : CharsOf[e] = chars

\* A unit of a file (a page, a cell, a stretch of text) with no text in it.
EmptyUnit == 0
\* The content of the document load_notebook emits for a notebook without
\* any cell content.
NotebookName == "Jupyter Notebook"

\* What a directory can hold under one name: nothing, a text file that is
\* readable (with its text) or not, a PDF of two pages (its text: the pages),
\* or a file with no registered extension.
NoFile == [present |-> FALSE, ext |-> "", ok |-> FALSE, text |-> <<>>]
DirEntries ==
  {NoFile}
    \cup {[present |-> TRUE, ext |-> ".txt", ok |-> FALSE, text |-> <<>>]}
    \cup {[present |-> TRUE, ext |-> ".txt", ok |-> TRUE, text |-> t] : t \in Texts}
    \cup {[present |-> TRUE, ext |-> ".pdf", ok |-> TRUE, text |-> <<1, 2>>]}
    \cup {[present |-> TRUE, ext |-> ".bin", ok |-> TRUE, text |-> <<1>>]}
Directories == [FileNames -> DirEntries]

\* ------------------------------------------------------- pure functions
RECURSIVE Flatten(_)
Flatten(ss) == IF ss = <<>> THEN <<>> ELSE Head(ss) \o Flatten(Tail(ss))

RECURSIVE SortedSeq(_)
\* sorted(files): ascending by name.
SortedSeq(S) ==
  IF S = {} THEN <<>>
  ELSE LET m == CHOOSE x \in S : \A y \in S : x.name <= y.name
       IN <<m>> \o SortedSeq(S \ {m})

\* vectorstore.py _get_text_hash: SHA-256 of the text; distinct texts get
\* distinct digests.
GetTextHash(text) == <<"sha256", text>>

\* ingest.py discover_files: every file under the directory whose name ends
\* in a supported extension, sorted.
DiscoverFiles(dir) ==
  SortedSeq({[name |-> n, ext |-> dir[n].ext, ok |-> dir[n].ok, text |-> dir[n].text] :
               n \in {m \in FileNames : dir[m].present /\ dir[m].ext \in SUPPORTED_EXTENSIONS}})

\* str.lower() on one character.
LowerChar(c) ==
  CASE c = "B" -> "b" [] c = "D" -> "d" [] c = "F" -> "f" [] c = "H" -> "h"
    [] c = "I" -> "i" [] c = "M" -> "m" [] c = "N" -> "n" [] c = "P" -> "p"
    [] c = "T" -> "t" [] c = "Y" -> "y" [] OTHER -> c

\* A faulty variant of Lower: the suffix is used as written.
LowerKeepsCase(suffix) == suffix

\* str.lower() on a suffix.
Lower(suffix) == StringOf([i \in DOMAIN CharsOf[suffix] |-> LowerChar(CharsOf[suffix][i])])

\* The text of the units of a file, in order (an empty unit adds nothing).
TextOf(units) == SelectSeq(units, LAMBDA u : u # EmptyUnit)

\* The loaders; each raises when the file cannot be read.
\*   load_pdf       one document per page, whatever the page holds;
\*   load_notebook  one document per cell with content, and one naming the
\*                  notebook when no cell has any;
\*   load_text, load_html, load_python
\*                  one document holding the text of the file.
RunLoader(loader, f) ==
  IF ~f.ok THEN [raised |-> TRUE, docs |-> <<>>]
  ELSE IF loader = "load_pdf"
    THEN [raised |-> FALSE,
          docs |-> [i \in DOMAIN f.text |->
                      [content |-> TextOf(<<f.text[i]>>), source |-> f.name]]]
  ELSE IF loader = "load_notebook"
    THEN [raised |-> FALSE,
          docs |-> IF TextOf(f.text) = <<>>
                   THEN <<[content |-> <<NotebookName>>, source |-> f.name]>>
                   ELSE [i \in DOMAIN TextOf(f.text) |->
                           [content |-> <<TextOf(f.text)[i]>>, source |-> f.name]]]
    ELSE [raised |-> FALSE, docs |-> <<[content |-> TextOf(f.text), source |-> f.name]>>]

\* ingest.py load_document: dispatch on the lowercased suffix; an unknown
\* suffix raises before any loader is called, and a loader failure raises.
LoadDocument(f) ==
  LET ext == Lower(f.ext)
  IN IF ext \notin DOMAIN LOADER_MAP
     THEN [raised |-> TRUE, error |-> "Unsupported file type", loader |-> "none",
           docs |-> <<>>]
     ELSE LET r == RunLoader(LOADER_MAP[ext], f)
          IN [raised |-> r.raised,
              error |-> IF r.raised THEN "Failed to load" ELSE "none",
              loader |-> LOADER_MAP[ext], docs |-> r.docs]

\* The files load_document is given: any suffix, readable or not, with any
\* units of text.
FileTexts ==
  {<<>>, <<EmptyUnit>>, <<1>>, <<EmptyUnit, 1>>, <<1, 2>>, <<EmptyUnit, EmptyUnit>>}
Files ==
  {[name |-> n, ext |-> e, ok |-> o, text |-> t] :
     n \in FileNames, e \in Suffixes, o \in BOOLEAN, t \in FileTexts}

\* A faulty variant of LoadAll: the first failing file ends the loading loop.
RECURSIVE LoadAllAbortOnError(_)
LoadAllAbortOnError(files) ==
  IF files = <<>> THEN <<>>
  ELSE LET r == LoadDocument(Head(files))
       IN IF r.raised THEN <<>> ELSE r.docs \o LoadAllAbortOnError(Tail(files))

RECURSIVE LoadAll(_)
\* ingest.py ingest_documents, the loading loop: a file that raises is
\* reported and skipped.
LoadAll(files) ==
  IF files = <<>> THEN <<>>
  ELSE LET r == LoadDocument(Head(files))
       IN (IF r.raised THEN <<>> ELSE r.docs) \o LoadAll(Tail(files))

\* ingest.py chunk_documents: each document is split into its chunks, which
\* carry the document's metadata.
ChunkDocuments(docs) ==
  Flatten([i \in DOMAIN docs |->
             [j \in DOMAIN docs[i].content |->
                [content |-> docs[i].content[j], source |-> docs[i].source]]])

\* --------------------------------------------------- VectorStore, pure part
\* A call's outcome: it raised, or it returned `value`; `index` is the
\* collection afterwards.
Raised(idx) == [raised |-> TRUE, index |-> idx, value |-> 0]
Returned(idx, v) == [raised |-> FALSE, index |-> idx, value |-> v]

\* add_documents, lines 76-78: every document gets its content hash.
WithContentHash(docs) ==
  [i \in DOMAIN docs |->
     [content |-> docs[i].content, source |-> docs[i].source,
      content_hash |-> GetTextHash(docs[i].content)]]

\* add_documents, lines 80-89: the hashes read from the collection; a read
\* that raises is swallowed and leaves the empty set.
ExistingHashes(idx, readFails) ==
  IF readFails THEN {} ELSE {idx[i].content_hash : i \in DOMAIN idx}

\* A faulty variant of NewDocuments: nothing is filtered out.
NewDocumentsUnfiltered(docs, existing) == docs

\* add_documents, lines 91-95: the documents whose hash was not read.
NewDocuments(docs, existing) ==
  SelectSeq(docs, LAMBDA d : d.content_hash \notin existing)

\* embeddings.py embed_documents: the vector of a text; it depends on the
\* text alone.
EmbedDocument(text) == <<"embedding", text>>

\* The records the collection stores for documents: each with the embedding
\* of its content beside its metadata.
Embedded(docs) ==
  [i \in DOMAIN docs |->
     [content |-> docs[i].content, source |-> docs[i].source,
      content_hash |-> docs[i].content_hash,
      embedding |-> EmbedDocument(docs[i].content)]]

\* A faulty variant of WriteNew: the metadata is stored first and the
\* embeddings after it, so a failure in between leaves records without one.
WriteNewMetadataFirst(idx, new, writeFails) ==
  IF new = <<>> THEN Returned(idx, 0)
  ELSE IF writeFails
    THEN Raised(idx \o [i \in DOMAIN new |->
                          [content |-> new[i].content, source |-> new[i].source,
                           content_hash |-> new[i].content_hash, embedding |-> <<>>]])
  ELSE Returned(idx \o Embedded(new), Len(new))

\* A faulty variant of WriteNew: the write replaces what the collection held.
WriteNewReplaces(idx, new, writeFails) ==
  IF new = <<>> THEN Returned(idx, 0)
  ELSE IF writeFails THEN Raised(idx)
  ELSE Returned(Embedded(new), Len(new))

\* add_documents, lines 97-101: write the new documents (one call to the
\* collection, which embeds and stores them all or raises) and return their
\* number.
WriteNew(idx, new, writeFails) ==
  IF new = <<>> THEN Returned(idx, 0)
  ELSE IF writeFails THEN Raised(idx)
  ELSE Returned(idx \o Embedded(new), Len(new))

\* VectorStore.add_documents as one call. openFails: opening the store
\* (_ensure_vectorstore) raises.
AddDocumentsCall(idx, docs, openFails, readFails, writeFails) ==
  IF openFails THEN Raised(idx)
  ELSE IF docs = <<>> THEN Returned(idx, 0)
  ELSE WriteNew(idx,
                NewDocuments(WithContentHash(docs), ExistingHashes(idx, readFails)),
                writeFails)

\* The texts held by the collection's records.
StoredContents(idx) == {idx[i].content : i \in DOMAIN idx}

\* VectorStore.count: opening the store is outside the try; a read that
\* raises gives 0.
CountCall(idx, openFails, readFails) ==
  IF openFails THEN Raised(idx)
  ELSE IF readFails THEN Returned(idx, 0)
  ELSE Returned(idx, Len(idx))

\* Chroma's delete_collection, called by clear: the collection is dropped.
DeleteCollection(idx) == <<>>

\* A faulty variant of ClearCall: the handle is reset, the collection is not deleted.
ClearCallWithoutDelete(idx, openFails, deleteFails) ==
  IF openFails THEN Raised(idx) ELSE Returned(idx, 0)

\* VectorStore.clear.
ClearCall(idx, openFails, deleteFails) ==
  IF openFails \/ deleteFails THEN Raised(idx)
  ELSE Returned(DeleteCollection(idx), 0)

\* ------------------------------------------------------------- retrieval
Min(a, b) == IF a <= b THEN a ELSE b
Distance(q, c) == IF q >= c THEN q - c ELSE c - q

RECURSIVE Ranked(_, _)
\* The collection's records, nearest to the query first (ties: the record
\* stored first).
Ranked(idx, q) ==
  IF idx = <<>> THEN <<>>
  ELSE LET best == CHOOSE i \in DOMAIN idx :
                     \A j \in DOMAIN idx :
                        \/ Distance(q, idx[i].content) < Distance(q, idx[j].content)
                        \/ /\ Distance(q, idx[i].content) = Distance(q, idx[j].content)
                           /\ i <= j
       IN <<idx[best]>> \o
          Ranked([j \in 1..(Len(idx) - 1) |-> IF j < best THEN idx[j] ELSE idx[j + 1]], q)

\* The retriever's k-nearest-neighbour search: the k nearest records, all
\* of them when there are fewer than k.
SimilaritySearch(idx, q, k) == SubSeq(Ranked(idx, q), 1, Min(k, Len(idx)))

\* A faulty variant of GetRetriever: the caller's k is dropped for the default.
GetRetrieverDefaultK(k) == [k |-> DEFAULT_K]

\* VectorStore.get_retriever: the retriever searches with the caller's k.
GetRetriever(k) == [k |-> k]

\* A faulty variant of QueryCollection: the records handed back leave the
\* collection.
QueryCollectionConsumes(idx, q, k) ==
  [index |-> SelectSeq(idx, LAMBDA rec :
                         \A i \in DOMAIN SimilaritySearch(idx, q, GetRetriever(k).k) :
                            SimilaritySearch(idx, q, GetRetriever(k).k)[i] # rec),
   docs |-> SimilaritySearch(idx, q, GetRetriever(k).k)]

\* retriever.get_relevant_documents(query): the documents handed back, and
\* the collection afterwards.
QueryCollection(idx, q, k) ==
  [index |-> idx, docs |-> SimilaritySearch(idx, q, GetRetriever(k).k)]

\* retrieval.py retrieve_documents.
RetrieveDocuments(idx, q, k, openFails, queryFails) ==
  IF openFails \/ queryFails THEN [raised |-> TRUE, docs |-> <<>>]
  ELSE [raised |-> FALSE, docs |-> QueryCollection(idx, q, k).docs]

\* --------------------------------------------------------------- chunking
\* A text is given by the lengths of its paragraphs, which hold no line
\* break, sentence end or space; a piece of it by where it starts and how
\* long it is.
RECURSIVE TextLength(_)
TextLength(paragraphs) ==
  IF paragraphs = <<>> THEN 0
  ELSE IF Len(paragraphs) = 1 THEN paragraphs[1]
  ELSE paragraphs[1] + PARAGRAPH_BREAK + TextLength(Tail(paragraphs))

ParagraphStart(paragraphs, i) ==
  IF i = 1 THEN 0 ELSE TextLength(SubSeq(paragraphs, 1, i - 1)) + PARAGRAPH_BREAK

Piece(start, length) == [start |-> start, length |-> length]

\* A faulty variant of HardSplit: a long run of characters is left whole.
HardSplitNot(start, length) == <<Piece(start, length)>>

RECURSIVE HardSplit(_, _)
\* The last resort: a run of characters cut every CHUNK_SIZE characters.
HardSplit(start, length) ==
  IF length <= CHUNK_SIZE THEN <<Piece(start, length)>>
  ELSE <<Piece(start, CHUNK_SIZE)>> \o HardSplit(start + CHUNK_SIZE, length - CHUNK_SIZE)

\* The cascade: a text within CHUNK_SIZE is one piece; a longer one is split
\* at its paragraph breaks, and a paragraph still too long is cut.
Pieces(paragraphs) ==
  IF TextLength(paragraphs) = 0 THEN <<>>
  ELSE IF TextLength(paragraphs) <= CHUNK_SIZE THEN <<Piece(0, TextLength(paragraphs))>>
  ELSE Flatten([i \in DOMAIN paragraphs |->
                  IF paragraphs[i] = 0 THEN <<>>
                  ELSE HardSplit(ParagraphStart(paragraphs, i), paragraphs[i])])

\* Adjacent chunks overlap: every piece after the first also takes the
\* CHUNK_OVERLAP characters before it.
WithOverlap(pieces) ==
  [k \in DOMAIN pieces |->
     IF k = 1 THEN pieces[k]
     ELSE Piece(pieces[k].start - Min(CHUNK_OVERLAP, pieces[k].start),
                pieces[k].length + Min(CHUNK_OVERLAP, pieces[k].start))]

\* RecursiveCharacterTextSplitter.split_text
SplitText(paragraphs) == WithOverlap(Pieces(paragraphs))

\* A faulty variant of SplitDocuments: every chunk also records where it starts.
SplitDocumentsAddStartIndex(documents) ==
  Flatten([i \in DOMAIN documents |->
             [j \in DOMAIN SplitText(documents[i].page_content) |->
                [page_content |-> SplitText(documents[i].page_content)[j],
                 metadata |-> documents[i].metadata @@
                   ("start_index" :> SplitText(documents[i].page_content)[j].start)]]])

\* text_splitter.split_documents: the chunks of every document in turn, each
\* with a copy of its document's metadata.
SplitDocuments(documents) ==
  Flatten([i \in DOMAIN documents |->
             [j \in DOMAIN SplitText(documents[i].page_content) |->
                [page_content |-> SplitText(documents[i].page_content)[j],
                 metadata |-> documents[i].metadata]]])

\* The documents chunk_documents is given.
ParagraphLengths ==
  {0, 1, CHUNK_SIZE - CHUNK_OVERLAP, CHUNK_SIZE - 1, CHUNK_SIZE, CHUNK_SIZE + 1,
   MaxParagraphLen}
RECURSIVE SeqsUpTo(_, _)
SeqsUpTo(S, n) ==
  IF n = 0 THEN {<<>>}
  ELSE SeqsUpTo(S, n - 1) \cup {Append(q, x) : q \in SeqsUpTo(S, n - 1), x \in S}
DocumentMetadata ==
  {<<>>,
   ("source" :> "a") @@ ("file_type" :> "text"),
   ("source" :> "a") @@ ("file_type" :> "pdf") @@ ("page" :> 1),
   ("source" :> "b") @@ ("file_type" :> "notebook") @@ ("cell_index" :> 0)}
LoadedDocuments ==
  {[page_content |-> t, metadata |-> m] :
     t \in SeqsUpTo(ParagraphLengths, MaxParagraphs), m \in DocumentMetadata}

\* -------------------------------------------------------- file discovery
\* The characters of file names, in code point order.
Alphabet ==
  <<".", "B", "D", "F", "H", "I", "M", "N", "P", "T", "Y",
    "a", "b", "d", "f", "h", "i", "l", "m", "n", "p", "s", "t", "x", "y">>
Ord(c) == CHOOSE i \in DOMAIN Alphabet : Alphabet[i] = c

RECURSIVE CharsLess(_, _)
\* str < str: by the first character that differs, a prefix first.
CharsLess(a, b) ==
  IF b = <<>> THEN FALSE
  ELSE IF a = <<>> THEN TRUE
  ELSE IF Head(a) # Head(b) THEN Ord(Head(a)) < Ord(Head(b))
  ELSE CharsLess(Tail(a), Tail(b))

RECURSIVE PartsLess(_, _)
\* Path < Path: the names along the two paths compared in turn.
PartsLess(a, b) ==
  IF b = <<>> THEN FALSE
  ELSE IF a = <<>> THEN TRUE
  ELSE IF Head(a) # Head(b) THEN CharsLess(Head(a), Head(b))
  ELSE PartsLess(Tail(a), Tail(b))

\* A name ends with the characters of an extension: the pattern "*" + ext.
EndsWith(name, chars) ==
  /\ Len(chars) <= Len(name)
  /\ SubSeq(name, Len(name) - Len(chars) + 1, Len(name)) = chars

\* Path.suffix: from the last dot of the name on, unless that dot starts or
\* ends the name.
Suffix(name) ==
  LET dots == {i \in DOMAIN name : name[i] = "."}
  IN IF dots = {} THEN <<>>
     ELSE LET i == CHOOSE d \in dots : \A e \in dots : e <= d
          IN IF 1 < i /\ i < Len(name) THEN SubSeq(name, i, Len(name)) ELSE <<>>

\* What can lie under the root: files and directories, each with the names
\* along its path from the root.
Entry(parts, isFile) == [parts |-> parts, isFile |-> isFile]
TreeEntries ==
  {Entry(<<<<"a">> \o CharsOf[".txt"]>>, TRUE),
   Entry(<<<<"b">> \o CharsOf[".md"]>>, TRUE),
   Entry(<<<<"s">>, <<"a">> \o CharsOf[".txt"]>>, TRUE),
   Entry(<<<<"a">> \o CharsOf[".html"]>>, TRUE),
   Entry(<<<<"a">> \o CharsOf[".htm"]>>, TRUE),
   Entry(<<<<"a">> \o CharsOf[".pdf"]>>, TRUE),
   Entry(<<<<"a">> \o CharsOf[".PDF"]>>, TRUE),
   Entry(<<<<"a">> \o CharsOf[".bin"]>>, TRUE),
   Entry(<<CharsOf[".md"]>>, TRUE),
   Entry(<<<<"d">> \o CharsOf[".py"]>>, FALSE)}
Trees == SUBSET TreeEntries

\* The orders the set SUPPORTED_EXTENSIONS can be iterated in.
ExtensionOrders ==
  {<<".pdf", ".txt", ".md", ".html", ".htm", ".py", ".ipynb">>,
   <<".ipynb", ".py", ".htm", ".html", ".md", ".txt", ".pdf">>,
   <<".htm", ".ipynb", ".md", ".pdf", ".html", ".txt", ".py">>}
\* The orders a directory scan can yield its entries in.
ScanOrders == {"ascending", "descending"}

RECURSIVE Scan(_, _)
\* The entries of a set, in the order of the scan.
Scan(S, order) ==
  IF S = {} THEN <<>>
  ELSE LET m == CHOOSE x \in S :
                  \A y \in S : x = y \/ IF order = "ascending"
                                          THEN PartsLess(x.parts, y.parts)
                                          ELSE PartsLess(y.parts, x.parts)
       IN <<m>> \o Scan(S \ {m}, order)

\* data_dir.rglob("*" + ext): every entry under the root, at any depth,
\* whose name ends with the extension.
Rglob(tree, ext, order) ==
  Scan({x \in tree : EndsWith(x.parts[Len(x.parts)], CharsOf[ext])}, order)

RECURSIVE InsertPath(_, _)
InsertPath(x, sorted) ==
  IF sorted = <<>> THEN <<x>>
  ELSE IF PartsLess(x.parts, Head(sorted).parts) THEN <<x>> \o sorted
  ELSE <<Head(sorted)>> \o InsertPath(x, Tail(sorted))

\* A faulty variant of SortedPaths: the list is returned as collected.
SortedPathsAsCollected(files) == files

RECURSIVE SortedPaths(_)
\* sorted(files): ascending, equal paths all kept.
SortedPaths(files) ==
  IF files = <<>> THEN <<>>
  ELSE InsertPath(files[Len(files)], SortedPaths(SubSeq(files, 1, Len(files) - 1)))

\* ingest.py discover_files: the matches of each extension collected in the
\* iteration order of the extension set, then sorted.
DiscoverFilesIn(tree, extensions, order) ==
  SortedPaths(Flatten([i \in DOMAIN extensions |-> Rglob(tree, extensions[i], order)]))

\* ------------------------------------------------------ source formatting
\* A text of n characters.
TextOfLen(n) == [i \in 1..n |-> IF i % 2 = 1 THEN "a" ELSE "b"]

\* metadata.get(key, default)
MetaGet(metadata, key, default) ==
  IF key \in DOMAIN metadata THEN metadata[key] ELSE default

\* A faulty variant of Snippet: a text of exactly SNIPPET_LEN characters is cut too.
SnippetCutsAtLimit(content) ==
  IF Len(content) >= SNIPPET_LEN
  THEN SubSeq(content, 1, SNIPPET_LEN) \o <<".", ".", ".">>
  ELSE content

\* format_sources, line 46: page_content[:200] + "..." when longer than 200
\* characters, else page_content.
Snippet(content) ==
  IF Len(content) > SNIPPET_LEN
  THEN SubSeq(content, 1, SNIPPET_LEN) \o <<".", ".", ".">>
  ELSE content

\* A faulty variant of Location: cell_index is looked at before page.
LocationCellFirst(metadata) ==
  IF "cell_index" \in DOMAIN metadata THEN <<"Cell ", metadata["cell_index"]>>
  ELSE IF "page" \in DOMAIN metadata THEN <<"Page ", metadata["page"]>>
  ELSE IF "title" \in DOMAIN metadata THEN <<"Title: ", metadata["title"]>>
  ELSE <<"N/A">>

\* format_sources, lines 49-57: the location, a label followed by the value
\* of the key that wins.
Location(metadata) ==
  IF "page" \in DOMAIN metadata THEN <<"Page ", metadata["page"]>>
  ELSE IF "cell_index" \in DOMAIN metadata THEN <<"Cell ", metadata["cell_index"]>>
  ELSE IF "title" \in DOMAIN metadata THEN <<"Title: ", metadata["title"]>>
  ELSE <<"N/A">>

\* retrieval.py format_sources: one source record per document, in order.
FormatSources(documents) ==
  [i \in DOMAIN documents |->
     [filename |-> MetaGet(documents[i].metadata, "source", "Unknown"),
      file_type |-> MetaGet(documents[i].metadata, "file_type", "Unknown"),
      snippet |-> Snippet(documents[i].page_content),
      location |-> Location(documents[i].metadata)]]

\* rag_chain.py format_documents, lines 50-55: the location named in the
\* context.
ContextLocation(metadata) ==
  IF "page" \in DOMAIN metadata THEN <<"Page ", metadata["page"]>>
  ELSE IF "cell_index" \in DOMAIN metadata THEN <<"Cell ", metadata["cell_index"]>>
  ELSE <<"N/A">>

\* rag_chain.py format_documents: the context handed to the model, one
\* numbered entry per document ("[Document i]", "Source: source (file_type,
\* location)", "Content: ..."), in order.
FormatDocuments(docs) ==
  [i \in DOMAIN docs |->
     [number |-> i,
      source |-> MetaGet(docs[i].metadata, "source", "Unknown"),
      file_type |-> MetaGet(docs[i].metadata, "file_type", "Unknown"),
      location |-> ContextLocation(docs[i].metadata),
      content |-> docs[i].page_content]]

\* The metadata a retrieved chunk can carry: source and file_type, and any
\* of page, cell_index, title.
OptionalKey(key, values) == {<<>>} \cup {key :> v : v \in values}
ChunkMetadata ==
  {("source" :> "a") @@ ("file_type" :> "text") @@ p @@ c @@ t :
     p \in OptionalKey("page", {1, 2}),
     c \in OptionalKey("cell_index", {0, 1}),
     t \in OptionalKey("title", {"T"})}
ContentLengths == {0, 1, SNIPPET_LEN - 1, SNIPPET_LEN, SNIPPET_LEN + 1, MaxContentLen}
RetrievedChunks ==
  {[page_content |-> TextOfLen(n), metadata |-> m] : n \in ContentLengths, m \in ChunkMetadata}

\* ------------------------------------------------------- answering
\* A stored record as the Document the retriever hands back.
AsDocument(rec) ==
  [page_content |-> <<rec.content>>,
   metadata |-> ("source" :> rec.source) @@ ("content_hash" :> rec.content_hash)]

\* What answer_question returns; `generated` tells whether the language
\* model was asked.
NoAnswer == [answer |-> "none", sources |-> <<>>, retrieved_docs |-> 0, generated |-> FALSE]
NoDocumentsAnswer ==
  [NoAnswer EXCEPT !.answer = "No relevant documents found in the knowledge base."]
GeneratedAnswer(documents) ==
  [answer |-> "generated",
   sources |-> FormatSources([i \in DOMAIN documents |-> AsDocument(documents[i])]),
   retrieved_docs |-> Len(documents),
   generated |-> TRUE]

\* A faulty variant of AnswerQuestionCall: the model is asked whatever was retrieved.
AnswerQuestionAlwaysGenerates(idx, q, k, openFails, queryFails, llmFails) ==
  LET r == RetrieveDocuments(idx, q, k, openFails, queryFails)
  IN IF r.raised THEN [raised |-> TRUE, docs |-> <<>>, result |-> NoAnswer]
     ELSE IF llmFails
       THEN [raised |-> TRUE, docs |-> r.docs, result |-> [NoAnswer EXCEPT !.generated = TRUE]]
     ELSE [raised |-> FALSE, docs |-> r.docs, result |-> GeneratedAnswer(r.docs)]

\* rag_chain.py answer_question: retrieve; with nothing retrieved return the
\* fixed result; otherwise ask the model (get_llm and the chain can raise)
\* and return its answer with the formatted sources.
AnswerQuestionCall(idx, q, k, openFails, queryFails, llmFails) ==
  LET r == RetrieveDocuments(idx, q, k, openFails, queryFails)
  IN IF r.raised THEN [raised |-> TRUE, docs |-> <<>>, result |-> NoAnswer]
     ELSE IF r.docs = <<>>
       THEN [raised |-> FALSE, docs |-> r.docs, result |-> NoDocumentsAnswer]
     ELSE IF llmFails
       THEN [raised |-> TRUE, docs |-> r.docs, result |-> [NoAnswer EXCEPT !.generated = TRUE]]
     ELSE [raised |-> FALSE, docs |-> r.docs, result |-> GeneratedAnswer(r.docs)]

\* ------------------------------------------------------------------ state
VARIABLES
  index,     \* the persisted collection: its records, in the order stored
  opened,    \* a long-lived VectorStore object: _vectorstore is not None
  cleared,   \* what the latest clear() dropped, while nothing was stored since
             \* (last.afterClear: the call began so; last.redo: it was given
             \* content that clear had dropped)
  last,      \* the latest completed call: its inputs and its outcome
  pc,        \* concurrent add_documents calls: where each one is
  batch,     \* ... the documents each was given, with their hashes
  existing,  \* ... the hashes each one read
  ret,       \* ... what each one returned last
  pure,      \* the latest call of a function that touches no store: its
             \* input and its result
  reads      \* concurrent retrieve_documents calls: where each one is, what
             \* it asked and what it got

vars == <<index, opened, cleared, last, pc, batch, existing, ret, pure, reads>>
seqVars == <<opened, cleared, last, pure, reads>>
concVars == <<pc, batch, existing, ret, pure, reads>>
storeVars == <<index, opened, cleared, last, pc, batch, existing, ret, reads>>

NoStats == [files_found |-> 0, documents_loaded |-> 0, chunks_created |-> 0, chunks_added |-> 0]
NoCall ==
  [op |-> "none", raised |-> FALSE, fault |-> FALSE, rerun |-> FALSE, afterClear |-> FALSE,
   redo |-> FALSE, before |-> 0, files |-> <<>>, batch |-> <<>>, stats |-> NoStats, value |-> 0,
   k |-> 0, query |-> 0, docs |-> <<>>, answer |-> NoAnswer]
NotCleared == [active |-> FALSE, dropped |-> {}]
NoPureCall == [op |-> "none"]
NoRead == [pc |-> "idle", query |-> 0, k |-> 0, raised |-> FALSE, docs |-> <<>>]

Init ==
  /\ index = <<>>
  /\ opened = FALSE
  /\ cleared = NotCleared
  /\ last = NoCall
  /\ pc = [p \in Procs |-> "idle"]
  /\ batch = [p \in Procs |-> <<>>]
  /\ existing = [p \in Procs |-> {}]
  /\ ret = [p \in Procs |-> 0]
  /\ pure = NoPureCall
  /\ reads = [p \in Procs |-> NoRead]

\* Whether a store call of add_documents failed: the open, the bulk read of
\* the hashes (made for a non-empty input), the write (made when documents
\* are new).
StoreFault(idx, docs, openFails, readFails, writeFails) ==
  \/ openFails
  \/ /\ docs # <<>>
     /\ \/ readFails
        \/ /\ writeFails
           /\ NewDocuments(WithContentHash(docs), ExistingHashes(idx, readFails)) # <<>>

\* The store fault one call meets: "none", or the store call that raises
\* ("open", "read", "write", "delete", "query").
OpenFails(f) == f = "open"
ReadFails(f) == f = "read"
WriteFails(f) == f = "write"

\* ----------------------------------------------- the pipeline, one call at a time
\* ingest.py ingest_documents over a directory: discover, load (skipping the
\* files that fail), chunk, add to a fresh VectorStore, return the summary.
IngestDocuments ==
  \E dir \in Directories :
    \E files \in {DiscoverFiles(dir)} :
      \E all_documents \in {LoadAll(files)} :
        \E chunked_docs \in {ChunkDocuments(all_documents)} :
          \E f \in {"none", "open", "read", "write"} :
            \E r \in {AddDocumentsCall(index, chunked_docs, OpenFails(f), ReadFails(f), WriteFails(f))} :
              \E call \in {[NoCall EXCEPT
                              !.op = "ingest",
                              !.files = files,
                              !.before = Len(index),
                              !.afterClear = cleared.active,
                              !.redo = \E i \in DOMAIN chunked_docs :
                                          chunked_docs[i].content \in cleared.dropped,
                              !.rerun = last.op = "ingest" /\ ~last.raised /\ last.files = files]} :
                /\ IF files = <<>>
                   THEN /\ last' = call
                        /\ UNCHANGED <<index, cleared>>
                   ELSE /\ Len(r.index) <= MaxIndex
                        /\ index' = r.index
                        /\ cleared' = IF r.index # index THEN NotCleared ELSE cleared
                        /\ last' = [call EXCEPT
                                      !.raised = r.raised,
                                      !.fault = StoreFault(index, chunked_docs, OpenFails(f),
                                                           ReadFails(f), WriteFails(f)),
                                      !.batch = chunked_docs,
                                      !.value = r.value,
                                      !.stats = IF r.raised THEN NoStats
                                                ELSE [files_found |-> Len(files),
                                                      documents_loaded |-> Len(all_documents),
                                                      chunks_created |-> Len(chunked_docs),
                                                      chunks_added |-> r.value]]
                /\ UNCHANGED <<opened, concVars>>

\* VectorStore.count on the long-lived object.
Count ==
  \E f \in {"none", "open", "read"} :
    \E openF \in {~opened /\ OpenFails(f)} :
      \E r \in {CountCall(index, openF, ReadFails(f))} :
        /\ opened' = (opened \/ ~openF)
        /\ last' = [NoCall EXCEPT
                      !.op = "count",
                      !.raised = r.raised,
                      !.fault = openF \/ ReadFails(f),
                      !.afterClear = cleared.active,
                      !.before = Len(index),
                      !.value = r.value]
        /\ UNCHANGED <<index, cleared, concVars>>

\* VectorStore.clear on the long-lived object: the collection is deleted and
\* the handle reset, so that the next call opens a fresh collection.
Clear ==
  \E f \in {"none", "open", "delete"} :
    \E openF \in {~opened /\ OpenFails(f)} :
      \E r \in {ClearCall(index, openF, f = "delete")} :
        /\ index' = r.index
        /\ opened' = IF r.raised THEN (opened \/ ~openF) ELSE FALSE
        /\ cleared' = IF r.raised THEN cleared
                      ELSE [active |-> TRUE, dropped |-> StoredContents(index)]
        /\ last' = [NoCall EXCEPT
                      !.op = "clear",
                      !.raised = r.raised,
                      !.fault = openF \/ f = "delete",
                      !.afterClear = cleared.active,
                      !.before = Len(index)]
        /\ UNCHANGED concVars

\* retrieval.py retrieve_documents: a fresh VectorStore, its retriever, the search.
Retrieve ==
  \E q \in Queries, k \in 1..MaxK, f \in {"none", "open", "query"} :
    \E r \in {RetrieveDocuments(index, q, k, OpenFails(f), f = "query")} :
      /\ last' = [NoCall EXCEPT
                    !.op = "retrieve",
                    !.raised = r.raised,
                    !.fault = f # "none",
                    !.afterClear = cleared.active,
                    !.before = Len(index),
                    !.k = k,
                    !.query = q,
                    !.docs = r.docs]
      /\ UNCHANGED <<index, opened, cleared, concVars>>

Next == IngestDocuments \/ Count \/ Clear \/ Retrieve

\* rag_chain.py answer_question(question, k); `fault` records a failure of
\* the store, which is one of the open and the query.
AnswerQuestion ==
  \E q \in Queries, k \in 1..MaxK, f \in {"none", "open", "query", "llm"} :
    \E r \in {AnswerQuestionCall(index, q, k, OpenFails(f), f = "query", f = "llm")} :
      /\ last' = [NoCall EXCEPT
                    !.op = "answer",
                    !.raised = r.raised,
                    !.fault = f \in {"open", "query"},
                    !.before = Len(index),
                    !.k = k,
                    !.query = q,
                    !.docs = r.docs,
                    !.answer = r.result]
      /\ UNCHANGED <<index, opened, cleared, concVars>>

NextAnswer == IngestDocuments \/ AnswerQuestion

SpecAnswer == Init /\ [][NextAnswer]_vars

Spec == Init /\ [][Next]_vars

\* ------------------------------------- two ingestion runs at the same time
\* Each run holds its own VectorStore (get_vectorstore returns a new one) on
\* the same persisted collection; nothing orders one run's store calls with
\* the other's. A call is split at its store calls: "reading" is before the
\* bulk read of the hashes, "writing" between that read and the write.

\* The chunks one concurrent run offers: those of one file, named after the run.
RunBatches(p) ==
  {ChunkDocuments(<<[content |-> t, source |-> p]>>) : t \in Texts \cup {<<1, 2>>}}

Pending(p) == IF pc[p] = "idle" THEN 0 ELSE Len(batch[p])

\* add_documents, lines 71-78: the store is opened and the hashes computed.
StartAdd(p) ==
  /\ pc[p] = "idle"
  /\ \E docs \in RunBatches(p) :
       /\ Len(index) + Len(docs) + Pending(3 - p) <= MaxIndex
       /\ batch' = [batch EXCEPT ![p] = WithContentHash(docs)]
  /\ pc' = [pc EXCEPT ![p] = "reading"]
  /\ UNCHANGED <<index, existing, ret, seqVars>>

\* add_documents, lines 80-89: the bulk read of the hashes in the collection.
HashCheck(p) ==
  /\ pc[p] = "reading"
  /\ existing' = [existing EXCEPT ![p] = ExistingHashes(index, FALSE)]
  /\ pc' = [pc EXCEPT ![p] = "writing"]
  /\ UNCHANGED <<index, batch, ret, seqVars>>

\* add_documents, lines 91-101: filter against the hashes read, write, return.
WritePhase(p) ==
  /\ pc[p] = "writing"
  /\ \E r \in {WriteNew(index, NewDocuments(batch[p], existing[p]), FALSE)} :
       /\ index' = r.index
       /\ ret' = [ret EXCEPT ![p] = r.value]
  /\ pc' = [pc EXCEPT ![p] = "idle"]
  /\ UNCHANGED <<batch, existing, seqVars>>

NextConcurrent == \E p \in Procs : StartAdd(p) \/ HashCheck(p) \/ WritePhase(p)

SpecConcurrent == Init /\ [][NextConcurrent]_vars

\* ------------------------------------ retrievals running at the same time
\* Each retrieve_documents call holds its own VectorStore on the persisted
\* collection. A call is split at the query of the store: "searching" is
\* after the store was opened (get_vectorstore, get_retriever) and before
\* get_relevant_documents. The index is filled by one ingestion run before
\* the retrievals begin.
IngestBeforeReads ==
  /\ last = NoCall
  /\ \A p \in Procs : reads[p] = NoRead
  /\ IngestDocuments

\* retrieve_documents, lines 23-24: a VectorStore is made and opened.
StartRetrieve(p) ==
  /\ reads[p].pc = "idle"
  /\ \E q \in Queries, k \in 1..MaxK, f \in {"none", "open"} :
       reads' = [reads EXCEPT ![p] =
                   [pc |-> IF OpenFails(f) THEN "idle" ELSE "searching",
                    query |-> q, k |-> k, raised |-> OpenFails(f), docs |-> <<>>]]
  /\ UNCHANGED <<index, opened, cleared, last, pc, batch, existing, ret, pure>>

\* retrieve_documents, lines 25-26: the query of the store.
Search(p) ==
  /\ reads[p].pc = "searching"
  /\ \E f \in {"none", "query"} :
       \E r \in {QueryCollection(index, reads[p].query, reads[p].k)} :
         IF f = "query"
         THEN /\ reads' = [reads EXCEPT ![p].pc = "idle", ![p].raised = TRUE]
              /\ index' = index
         ELSE /\ reads' = [reads EXCEPT ![p].pc = "idle", ![p].docs = r.docs]
              /\ index' = r.index
  /\ UNCHANGED <<opened, cleared, last, pc, batch, existing, ret, pure>>

NextReaders == IngestBeforeReads \/ \E p \in Procs : StartRetrieve(p) \/ Search(p)

SpecReaders == Init /\ [][NextReaders]_vars

\* -------------------------------------- functions that touch no store
\* Each of these functions reads its arguments only, so one call from the
\* initial state on each input covers it.
\* retrieval.py format_sources on up to two retrieved chunks.
FormatSourcesCall ==
  /\ pure = NoPureCall
  /\ \E d \in RetrievedChunks, e \in {[page_content |-> TextOfLen(1), metadata |-> <<>>]},
        n \in 0..2 :
       \E documents \in {SubSeq(<<d, e>>, 1, n)} :
         pure' = [op |-> "format_sources", documents |-> documents,
                  sources |-> FormatSources(documents)]
  /\ UNCHANGED storeVars

NextFormat == FormatSourcesCall

\* rag_chain.py answer_question, lines 91 and 114: the documents retrieved
\* are formatted twice, into the context for the model and into the sources
\* returned.
FormatContextAndSourcesCall ==
  /\ pure = NoPureCall
  /\ \E d \in RetrievedChunks, e \in {[page_content |-> TextOfLen(1), metadata |-> <<>>]},
        n \in 1..2 :
       \E documents \in {SubSeq(<<d, e>>, 1, n)} :
         pure' = [op |-> "answer_formats", documents |-> documents,
                  context |-> FormatDocuments(documents),
                  sources |-> FormatSources(documents)]
  /\ UNCHANGED storeVars

NextContext == FormatContextAndSourcesCall

SpecContext == Init /\ [][NextContext]_vars

\* ingest.py load_document on one file.
LoadDocumentCall ==
  /\ pure = NoPureCall
  /\ \E f \in Files :
       pure' = [op |-> "load_document", file |-> f, result |-> LoadDocument(f)]
  /\ UNCHANGED storeVars

NextLoad == LoadDocumentCall

\* ingest.py discover_files on one directory tree.
DiscoverFilesCall ==
  /\ pure = NoPureCall
  /\ \E tree \in Trees, extensions \in ExtensionOrders, order \in ScanOrders :
       pure' = [op |-> "discover_files", tree |-> tree, extensions |-> extensions,
                order |-> order, files |-> DiscoverFilesIn(tree, extensions, order)]
  /\ UNCHANGED storeVars

NextDiscover == DiscoverFilesCall

\* ingest.py chunk_documents on up to two documents.
ChunkDocumentsCall ==
  /\ pure = NoPureCall
  /\ \E d \in LoadedDocuments,
        e \in {[page_content |-> <<CHUNK_SIZE + 1>>, metadata |-> "source" :> "c"]},
        n \in 0..2 :
       \E documents \in {SubSeq(<<d, e>>, 1, n)} :
         pure' = [op |-> "chunk_documents", documents |-> documents,
                  chunks |-> SplitDocuments(documents)]
  /\ UNCHANGED storeVars

\* A discovered path as load_document sees it: its suffix, and whether it
\* can be read as a file (a directory cannot).
FileOf(entry) ==
  [name |-> entry.parts, ext |-> StringOf(Suffix(entry.parts[Len(entry.parts)])),
   ok |-> entry.isFile, text |-> <<1>>]

\* ingest.py ingest_documents, lines 112-131: discover_files, then
\* load_document on every path it returned; what each load raised is kept.
LoadDiscoveredCall ==
  /\ pure = NoPureCall
  /\ \E tree \in Trees, extensions \in ExtensionOrders, order \in ScanOrders :
       \E files \in {DiscoverFilesIn(tree, extensions, order)} :
         pure' = [op |-> "load_discovered", tree |-> tree, files |-> files,
                  loads |-> [i \in DOMAIN files |-> LoadDocument(FileOf(files[i]))]]
  /\ UNCHANGED storeVars

NextDiscoverLoad == LoadDiscoveredCall

SpecDiscoverLoad == Init /\ [][NextDiscoverLoad]_vars

NextChunk == ChunkDocumentsCall

SpecChunk == Init /\ [][NextChunk]_vars

SpecDiscover == Init /\ [][NextDiscover]_vars

SpecLoad == Init /\ [][NextLoad]_vars

SpecFormat == Init /\ [][NextFormat]_vars

\* ----------------------------------------------------------------- claims
IngestReturned == last.op = "ingest" /\ ~last.raised
\* The last ingestion run reached add_documents (it discovered files).
AddWasCalled == last.op = "ingest" /\ last.files # <<>>
Loadable(f) == ~LoadDocument(f).raised

\* C1: no two records stored in the index have the same content.
C1_NoDuplicateContent ==
  \A i, j \in DOMAIN index : i # j => index[i].content # index[j].content

\* C2: a second ingestion run over the unchanged corpus (directly after the
\* first, no clear in between) that returns its summary reports
\* chunks_added = 0 and leaves the number of stored records as it was.
C2_SecondRunAddsNothing ==
  (IngestReturned /\ last.rerun)
    => (last.stats.chunks_added = 0 /\ Len(index) = last.before)

\* C2, the part the code keeps: the same, for second runs whose store calls
\* all succeeded.
C2_SecondRunAddsNothingWithoutFault ==
  (IngestReturned /\ last.rerun /\ ~last.fault)
    => (last.stats.chunks_added = 0 /\ Len(index) = last.before)

\* Two readable files of identical content under different names, found by
\* the last run, which started from an empty index.
TwoIdenticalFiles ==
  /\ IngestReturned
  /\ last.before = 0
  /\ Len(last.files) = 2
  /\ last.files[1].name # last.files[2].name
  /\ last.files[1].ext = last.files[2].ext
  /\ last.files[1].text = last.files[2].text
  /\ Loadable(last.files[1]) /\ Loadable(last.files[2])

\* C3: two files of identical content and different names, ingested together
\* into an empty index, leave each duplicated segment stored exactly once;
\* two one-chunk files give documents_loaded = 2, chunks_added = 1, count 1.
C3_PathIndependentDedup ==
  TwoIdenticalFiles =>
    /\ Len(index) = Cardinality(StoredContents(index))
    /\ last.stats.chunks_added = Cardinality({last.batch[i].content : i \in DOMAIN last.batch})
    /\ (Len(last.files[1].text) = 1 /\ last.files[1].ext = ".txt") =>
         /\ last.stats.documents_loaded = 2
         /\ last.stats.chunks_added = 1
         /\ Len(index) = 1

\* C4: when a store call of add_documents fails (the open, the bulk read of
\* the hashes, the write), add_documents raises and stores nothing; it does
\* not return a count.
C4_StoreFaultRaises ==
  (AddWasCalled /\ last.fault) => (last.raised /\ Len(index) = last.before)

\* A run is between its bulk read of the hashes and its write.
InCriticalSection(p) == pc[p] = "writing"

\* C5: of two concurrent runs, the hash-check-then-write sequence of one is
\* never interleaved with that of the other, and no content is stored by
\* both runs.
C5_NoInterleavedCheckAndWrite ==
  /\ ~(InCriticalSection(1) /\ InCriticalSection(2))
  /\ \A i, j \in DOMAIN index :
       index[i].source # index[j].source => index[i].content # index[j].content

\* C6: add_documents returns 0 and leaves the stored records unchanged
\* whenever its input is empty or every input chunk's content is already in
\* the index.
C6_DuplicateInputAddsNothing ==
  [][(/\ last'.op = "ingest" /\ last'.files # <<>> /\ ~last'.raised
      /\ \A i \in DOMAIN last'.batch : last'.batch[i].content \in StoredContents(index))
       => (last'.value = 0 /\ index' = index)]_vars

\* C6, the part the code keeps: the same, for calls whose bulk read of the
\* hashes succeeded.
C6_DuplicateInputAddsNothingWithoutFault ==
  [][(/\ last'.op = "ingest" /\ last'.files # <<>> /\ ~last'.raised /\ ~last'.fault
      /\ \A i \in DOMAIN last'.batch : last'.batch[i].content \in StoredContents(index))
       => (last'.value = 0 /\ index' = index)]_vars

\* The documents of the files that load, file by file.
DocumentsOfLoadable(files) ==
  Flatten([i \in DOMAIN files |->
             IF Loadable(files[i]) THEN LoadDocument(files[i]).docs ELSE <<>>])

\* C7: files that fail to load never abort ingestion: a run raises only on a
\* store fault; otherwise it returns the summary, files_found counts every
\* discovered file, documents_loaded counts exactly the documents of the
\* files that loaded, and their chunks are what add_documents is given.
C7_LoadFailuresDoNotAbort ==
  /\ (last.op = "ingest" /\ last.raised) => last.fault
  /\ IngestReturned =>
       /\ last.stats.files_found = Len(last.files)
       /\ last.stats.documents_loaded = Len(DocumentsOfLoadable(last.files))
       /\ last.stats.chunks_created = Len(last.batch)
       /\ last.batch = ChunkDocuments(DocumentsOfLoadable(last.files))

\* A run over one file that fails and one that loads returned its summary
\* and stored the chunk of the one that loaded.
C7_Witness ==
  /\ IngestReturned
  /\ Len(last.files) = 2
  /\ ~Loadable(last.files[1])
  /\ Loadable(last.files[2])
  /\ last.stats.documents_loaded = 1
  /\ last.stats.chunks_added = 1

\* C8: retrieve_documents(q, k), k >= 1, returns exactly min(k, count())
\* stored records: at most k, none from an empty index, all of them when k
\* exceeds the index size.
C8_RetrievalReturnsMinOfKAndCount ==
  (last.op = "retrieve" /\ ~last.raised) =>
    /\ Len(last.docs) = Min(last.k, Len(index))
    /\ \A i \in DOMAIN last.docs : \E j \in DOMAIN index : last.docs[i] = index[j]

\* A retrieval with k below the index size returned k records.
C8_Witness ==
  /\ last.op = "retrieve" /\ ~last.raised
  /\ last.k < Len(index)
  /\ Len(last.docs) = last.k

\* A retrieval with k above the size of a non-empty index returned them all.
C8_WitnessAll ==
  /\ last.op = "retrieve" /\ ~last.raised
  /\ Len(index) > 0 /\ last.k > Len(index)
  /\ Len(last.docs) = Len(index)

\* C9: clear() drops the whole collection: right after it the index is empty
\* and count() is 0, and an add_documents that follows stores every chunk it
\* is given, whatever was indexed before the clear.
C9_ClearDropsEverything ==
  /\ (last.op = "clear" /\ ~last.raised) => (index = <<>> /\ ~opened)
  /\ (last.op = "count" /\ ~last.raised /\ last.afterClear) => last.value = 0
  /\ (AddWasCalled /\ ~last.raised /\ last.afterClear) =>
       /\ last.value = Len(last.batch)
       /\ index = Embedded(WithContentHash(last.batch))

\* After a clear of a non-empty index, a run stored again content that the
\* clear had dropped.
C9_Witness ==
  /\ AddWasCalled /\ ~last.raised /\ last.afterClear
  /\ last.value = Len(last.batch)
  /\ last.redo

\* C10: count() returns the number of stored records, and returns 0 rather
\* than raising whenever the index cannot be opened or read.
C10_CountNeverRaises ==
  last.op = "count" =>
    /\ ~last.raised
    /\ last.value = IF last.fault THEN 0 ELSE Len(index)

\* C10, the part the code keeps: a count() whose store opened returns the
\* number of stored records, or 0 when reading the collection raises.
C10_CountAfterOpen ==
  (last.op = "count" /\ ~last.raised) =>
    last.value = IF last.fault THEN 0 ELSE Len(index)

Formatted == pure.op = "format_sources"

\* C11: format_sources takes the location from exactly one metadata key, in
\* the order page, cell_index, title, else the literal "N/A"; a chunk with
\* both page and cell_index reports the page.
C11_LocationPrecedence ==
  Formatted =>
    \A i \in DOMAIN pure.documents :
      LET m == pure.documents[i].metadata
          loc == pure.sources[i].location
      IN /\ "page" \in DOMAIN m => loc = <<"Page ", m["page"]>>
         /\ ("page" \notin DOMAIN m /\ "cell_index" \in DOMAIN m)
              => loc = <<"Cell ", m["cell_index"]>>
         /\ ("page" \notin DOMAIN m /\ "cell_index" \notin DOMAIN m /\ "title" \in DOMAIN m)
              => loc = <<"Title: ", m["title"]>>
         /\ (DOMAIN m \cap {"page", "cell_index", "title"} = {}) => loc = <<"N/A">>

\* A chunk carrying page, cell_index and title was formatted with its page.
C11_Witness ==
  /\ Formatted
  /\ \E i \in DOMAIN pure.documents :
       /\ {"page", "cell_index", "title"} \subseteq DOMAIN pure.documents[i].metadata
       /\ pure.sources[i].location = <<"Page ", pure.documents[i].metadata["page"]>>

\* C12: the snippet is the content itself when the content has at most 200
\* characters, and its first 200 characters followed by "..." when longer.
C12_SnippetTruncation ==
  Formatted =>
    \A i \in DOMAIN pure.documents :
      LET c == pure.documents[i].page_content
          sn == pure.sources[i].snippet
      IN /\ Len(c) <= 200 => sn = c
         /\ Len(c) > 200 =>
              /\ Len(sn) = 203
              /\ \A j \in 1..200 : sn[j] = c[j]
              /\ \A j \in 201..203 : sn[j] = "."

\* A content of exactly 200 characters went through unchanged.
C12_Witness ==
  /\ Formatted
  /\ \E i \in DOMAIN pure.documents :
       /\ Len(pure.documents[i].page_content) = 200
       /\ pure.sources[i].snippet = pure.documents[i].page_content

\* A content of more than 200 characters was cut and marked.
C12_WitnessCut ==
  /\ Formatted
  /\ \E i \in DOMAIN pure.documents :
       /\ Len(pure.documents[i].page_content) > 200
       /\ Len(pure.sources[i].snippet) = 203

LoadCalled == pure.op = "load_document"

\* The suffixes written with capitals, each with its lowercase form.
CaseVariants ==
  {<<".PDF", ".pdf">>, <<".Txt", ".txt">>, <<".MD", ".md">>, <<".Html", ".html">>,
   <<".HTM", ".htm">>, <<".Py", ".py">>, <<".IPYNB", ".ipynb">>}

\* C13: load_document picks the loader by the lowercased suffix from the
\* table of seven suffixes, so a suffix written with capitals gets the loader
\* of its lowercase form; for any other suffix it raises the unsupported-type
\* error and no loader runs.
C13_DispatchByLowercaseExtension ==
  LoadCalled =>
    LET e == pure.file.ext
        r == pure.result
        Registered == {".pdf", ".txt", ".md", ".html", ".htm", ".py", ".ipynb"}
        InTable(x) == /\ r.loader = LOADER_MAP[x]
                      /\ r.error # "Unsupported file type"
                      /\ r.raised = ~pure.file.ok
                      /\ r.docs = RunLoader(LOADER_MAP[x], pure.file).docs
    IN /\ e \in Registered => InTable(e)
       /\ \A v \in CaseVariants : e = v[1] => InTable(v[2])
       /\ (e \notin Registered /\ \A v \in CaseVariants : e # v[1])
            => /\ r.raised
               /\ r.error = "Unsupported file type"
               /\ r.loader = "none"
               /\ r.docs = <<>>

\* A readable file with a capitalised suffix was loaded by its loader.
C13_Witness ==
  /\ LoadCalled
  /\ pure.file.ext = ".PDF"
  /\ pure.result.loader = "load_pdf"
  /\ ~pure.result.raised
  /\ pure.result.docs # <<>>

\* A file with an unregistered suffix was refused without a loader.
C13_WitnessUnsupported ==
  /\ LoadCalled
  /\ pure.file.ext = ".BIN"
  /\ pure.file.ok
  /\ pure.result.raised
  /\ pure.result.loader = "none"

\* C19: every document a loader emits has content that is not empty; a file
\* or unit without content gives no document.
C19_LoadedContentNonEmpty ==
  (LoadCalled /\ ~pure.result.raised) =>
    \A i \in DOMAIN pure.result.docs : pure.result.docs[i].content # <<>>

Discovered == pure.op = "discover_files"

\* C14: discover_files returns every file under the root whose suffix is a
\* registered extension, each once, in ascending path order, and the same
\* sequence whatever the iteration order of the extension set and the order
\* of the directory scan.
C14_DiscoveryCompleteSortedStable ==
  Discovered =>
    /\ \A x \in pure.tree :
         (x.isFile /\ \E e \in SUPPORTED_EXTENSIONS : Suffix(x.parts[Len(x.parts)]) = CharsOf[e])
           => Cardinality({i \in DOMAIN pure.files : pure.files[i] = x}) = 1
    /\ \A i, j \in DOMAIN pure.files :
         i < j => PartsLess(pure.files[i].parts, pure.files[j].parts)
    /\ \A extensions \in ExtensionOrders, order \in ScanOrders :
         DiscoverFilesIn(pure.tree, extensions, order) = pure.files

\* A discovery over files of several extensions, one of them in a
\* subdirectory, returned four files or more.
C14_Witness ==
  /\ Discovered
  /\ Len(pure.files) >= 4
  /\ \E i, j \in DOMAIN pure.files :
       /\ Len(pure.files[i].parts) = 2
       /\ Suffix(pure.files[j].parts[1]) = CharsOf[".html"]
  /\ pure.extensions[1] = ".htm"
  /\ pure.order = "descending"

Chunked == pure.op = "chunk_documents"

\* C15: every chunk chunk_documents returns has at most CHUNK_SIZE +
\* CHUNK_OVERLAP characters.
C15_ChunkLengthBound ==
  Chunked =>
    \A i \in DOMAIN pure.chunks :
      pure.chunks[i].page_content.length <= CHUNK_SIZE + CHUNK_OVERLAP

\* A document longer than CHUNK_SIZE + CHUNK_OVERLAP was cut into several
\* chunks, one of them longer than CHUNK_SIZE.
C15_Witness ==
  /\ Chunked
  /\ \E d \in DOMAIN pure.documents :
       TextLength(pure.documents[d].page_content) > CHUNK_SIZE + CHUNK_OVERLAP
  /\ Len(pure.chunks) > 1
  /\ \E i \in DOMAIN pure.chunks : pure.chunks[i].page_content.length > CHUNK_SIZE

\* The chunks of the documents before document d.
RECURSIVE ChunksBefore(_, _)
ChunksBefore(documents, d) ==
  IF d = 1 THEN 0
  ELSE ChunksBefore(documents, d - 1) + Len(SplitText(documents[d - 1].page_content))

\* C16: every chunk carries the metadata of the document it was cut from,
\* with the same keys and the same values.
C16_ChunkMetadataUnchanged ==
  Chunked =>
    /\ Len(pure.chunks) = ChunksBefore(pure.documents, Len(pure.documents) + 1)
    /\ \A d \in DOMAIN pure.documents :
         \A j \in 1..Len(SplitText(pure.documents[d].page_content)) :
           LET chunk == pure.chunks[ChunksBefore(pure.documents, d) + j]
           IN /\ DOMAIN chunk.metadata = DOMAIN pure.documents[d].metadata
              /\ \A key \in DOMAIN chunk.metadata :
                   chunk.metadata[key] = pure.documents[d].metadata[key]

\* Two documents with different metadata were chunked, the first into
\* several chunks.
C16_Witness ==
  /\ Chunked
  /\ Len(pure.documents) = 2
  /\ pure.documents[1].metadata # pure.documents[2].metadata
  /\ "page" \in DOMAIN pure.documents[1].metadata
  /\ Len(SplitText(pure.documents[1].page_content)) > 1
  /\ Len(pure.chunks) > 2

Answered == last.op = "answer"

\* C18: when retrieval returns no documents, answer_question returns the
\* fixed result (the no-documents answer, no sources, zero retrieved) without
\* raising and without asking the language model.
C18_NoDocumentsResult ==
  (Answered /\ ~last.fault /\ last.docs = <<>>) =>
    /\ ~last.raised
    /\ last.answer.answer = "No relevant documents found in the knowledge base."
    /\ last.answer.sources = <<>>
    /\ last.answer.retrieved_docs = 0
    /\ ~last.answer.generated

\* A question was asked of an empty store and got the fixed result.
C18_Witness ==
  /\ Answered
  /\ ~last.fault
  /\ last.before = 0
  /\ last.docs = <<>>
  /\ last.answer = NoDocumentsAnswer

\* A question asked of a store with records was answered by the model.
C18_WitnessGenerated ==
  /\ Answered
  /\ ~last.raised
  /\ last.docs # <<>>
  /\ last.answer.generated
  /\ last.answer.retrieved_docs = Len(last.docs)

\* The hashes an add_documents call holds after its bulk read of the index:
\* those of the stored records, and none when the read raised (a returned
\* call that met a store fault met it in the read).
HashesRead(idx, call) ==
  IF call.fault THEN {} ELSE {idx[i].content_hash : i \in DOMAIN idx}

\* C20: every add_documents call that returns has written exactly the input
\* chunks whose content_hash is not among the hashes read from the index at
\* its start, in input order, and returns the number of records it added.
C20_WritesExactlyTheUnreadHashes ==
  [][(last'.op = "ingest" /\ last'.files # <<>> /\ ~last'.raised)
       => /\ index' = index \o Embedded(SelectSeq(WithContentHash(last'.batch),
                                 LAMBDA d : d.content_hash \notin HashesRead(index, last')))
          /\ last'.value = Len(index') - Len(index)]_vars

\* A call whose read succeeded wrote some of its input chunks and left out
\* the others.
C20_Witness ==
  /\ IngestReturned
  /\ ~last.fault
  /\ 0 < last.value
  /\ last.value < Len(last.batch)
  /\ Len(index) = last.before + last.value
  /\ \E i \in DOMAIN last.batch :
       \E j \in 1..last.before : index[j].content = last.batch[i].content

\* C21: every stored record carries the hash of its own content and the
\* embedding of that content: no state holds a record whose hash disagrees
\* with its content, or one with a hash and no embedding.
C21_RecordsWholeAndHashed ==
  \A i \in DOMAIN index :
    /\ index[i].content_hash = <<"sha256", index[i].content>>
    /\ index[i].embedding = <<"embedding", index[i].content>>

\* A run added several records to an index that already held some.
C21_Witness ==
  /\ IngestReturned
  /\ last.value >= 2
  /\ Len(index) = last.before + last.value
  /\ last.before > 0

\* C22: no call other than clear removes a stored record or changes one:
\* across every ingestion (add_documents), count and retrieval the records
\* stored before are still there, in place and unchanged; the index shrinks
\* only in a clear.
C22_IndexOnlyGrowsUntilClear ==
  [][/\ last'.op # "clear" =>
          /\ Len(index') >= Len(index)
          /\ \A i \in DOMAIN index : index'[i] = index[i]
     /\ Len(index') < Len(index) => (last'.op = "clear" /\ ~last'.raised)]_vars

\* A run added one record to an index of two, which are still its first two.
C22_Witness ==
  /\ IngestReturned
  /\ last.before = 2
  /\ last.value = 1
  /\ Len(index) = 3

\* Records were counted and retrieved between a run and a clear.
C22_WitnessRead ==
  /\ last.op \in {"count", "retrieve"}
  /\ ~last.raised
  /\ last.before > 0
  /\ Len(index) = last.before

Retrieved(p) == reads[p].pc = "idle" /\ reads[p].k > 0 /\ ~reads[p].raised

\* C23: retrieve_documents calls, however they interleave, leave the stored
\* records as they were, and each returns what it would return alone on
\* that index: the records nearest to its query, min(k, records) of them.
C23_RetrievalReadOnly ==
  [][/\ reads' # reads => index' = index
     /\ \A p \in Procs :
          (reads'[p].pc = "idle" /\ reads'[p].k > 0 /\ ~reads'[p].raised)
            => reads'[p].docs = SubSeq(Ranked(index', reads'[p].query), 1,
                                       Min(reads'[p].k, Len(index')))]_vars

\* Two retrievals with different queries overlapped on an index of several
\* records: one has returned records while the other is still searching.
C23_Witness ==
  /\ Len(index) >= 2
  /\ Retrieved(1)
  /\ reads[1].docs # <<>>
  /\ reads[2].pc = "searching"
  /\ reads[2].query # reads[1].query

\* Both retrievals have returned, with different records first.
C23_WitnessBoth ==
  /\ Retrieved(1)
  /\ Retrieved(2)
  /\ reads[1].docs # <<>>
  /\ reads[2].docs # <<>>
  /\ reads[1].docs[1] # reads[2].docs[1]

LoadedDiscovered == pure.op = "load_discovered"

\* C24: load_document raises the unsupported-type error for no path that
\* discover_files returned.
C24_DiscoveredFilesHaveLoader ==
  LoadedDiscovered =>
    \A i \in DOMAIN pure.loads : pure.loads[i].error # "Unsupported file type"

\* C24, the part the code keeps: a discovered path whose name is more than
\* the extension it ends with is given to the loader of that extension.
C24_NamedFilesHaveLoader ==
  LoadedDiscovered =>
    \A i \in DOMAIN pure.loads :
      Suffix(pure.files[i].parts[Len(pure.files[i].parts)]) # <<>>
        => /\ pure.loads[i].error # "Unsupported file type"
           /\ pure.loads[i].loader \in {"load_pdf", "load_text", "load_html",
                                        "load_python", "load_notebook"}

FormattedBoth == pure.op = "answer_formats"

\* C25: for every retrieved chunk the location named in the context built
\* by format_documents is the location format_sources reports for it,
\* whatever page, cell_index and title its metadata holds.
C25_ContextLocationMatchesSources ==
  FormattedBoth =>
    \A i \in DOMAIN pure.documents :
      pure.context[i].location = pure.sources[i].location

\* C25, the part the code keeps: the two locations agree for every chunk
\* that has a page or a cell_index, or no title.
C25_LocationsAgreeUnlessTitleOnly ==
  FormattedBoth =>
    \A i \in DOMAIN pure.documents :
      (\/ "page" \in DOMAIN pure.documents[i].metadata
       \/ "cell_index" \in DOMAIN pure.documents[i].metadata
       \/ "title" \notin DOMAIN pure.documents[i].metadata)
        => pure.context[i].location = pure.sources[i].location

====
